---- MODULE Spec2Model ----
(***************************************************************************)
(* Dynamic shell completion of clap_complete (src/dynamic): the bridge     *)
(* process (CompleteCommand::run, register, bash::complete), the rendering *)
(* of the bash and zsh registration scripts, and the shell functions those *)
(* scripts define.                                                         *)
(*                                                                         *)
(* Text is a sequence of atoms (one-character or one-word strings), so     *)
(* that joining, splitting, quoting and replacing are computed, not        *)
(* assumed.                                                                *)
(***************************************************************************)
EXTENDS Integers, Sequences, FiniteSets, TLC

\* ---------------------------------------------------------------- bounds
MaxWords == 2
MaxCands == 2
MaxExecs == 2

\* ------------------------------------------------------------ text helpers
SeqsUpTo(S, n) == UNION {[1..k -> S] : k \in 0..n}

RECURSIVE Flatten(_)
Flatten(ss) == IF ss = <<>> THEN <<>> ELSE Head(ss) \o Flatten(Tail(ss))

Last(s) == s[Len(s)]

\* the separator bash hands over: IFS=$'\013' (vertical tab)
VT == "\\013"
LF == "\\n"

\* ------------------------------------------------------- completion types
CompTypes == {"Normal", "Successive", "Alternatives", "Unmodified", "Menu"}

\* the value and the alias of each variant
to_possible_value(t) ==
    CASE t = "Normal"       -> [value |-> "9",  alias |-> "normal"]
      [] t = "Successive"   -> [value |-> "63", alias |-> "successive"]
      [] t = "Alternatives" -> [value |-> "33", alias |-> "alternatives"]
      [] t = "Unmodified"   -> [value |-> "64", alias |-> "unmodified"]
      [] t = "Menu"         -> [value |-> "37", alias |-> "menu"]

\* a --type value names a variant by its value or its alias
TypeMatches(s) ==
    {t \in CompTypes : to_possible_value(t).value = s \/ to_possible_value(t).alias = s}

\* --------------------------------------------------------- command lines
\* A command line of the host program: the subcommand words, then the
\* arguments.  index = -1 and type = "" stand for an absent flag.
NoPath == <<"<none>">>

ArgvOf(subs, index, type, space, no_space, has_ifs, ifs, words, shell, out_path) ==
    [subs |-> subs, index |-> index, type |-> type, space |-> space,
     no_space |-> no_space, has_ifs |-> has_ifs, ifs |-> ifs,
     comp_words |-> words, shell |-> shell, out_path |-> out_path]

\* command-line words: the program name first
WordAtoms == {"prog", "sub", "-f=x"}
Words == {w \in SeqsUpTo(WordAtoms, MaxWords) : w # <<>> => w[1] = "prog"}

\* --index and --type values the model draws from: absent, valid, invalid
IndexValues == {-1, 0, 1}
TypeValues == {"", "9", "63", "menu", "0"}

CompleteSubs == {<<"complete">>, <<"__complete", "bash">>, <<"__complete", "zsh">>}

\* --ifs values: bash's separator, one of two characters, the empty string
IfsValues == {<<VT>>, <<":", ":">>, <<>>}

DirectCompleteArgvs ==
    {ArgvOf(subs, i, t, sp, ns, FALSE, <<>>, w, "", NoPath) :
        subs \in CompleteSubs, i \in IndexValues, t \in TypeValues,
        sp \in BOOLEAN, ns \in BOOLEAN, w \in Words}
    \cup
    {ArgvOf(subs, i, t, sp, ns, TRUE, ifs, w, "", NoPath) :
        subs \in CompleteSubs, i \in IndexValues, t \in TypeValues,
        sp \in BOOLEAN, ns \in BOOLEAN, ifs \in IfsValues, w \in Words}

\* ------------------------------------------------------ registration scripts
\* A script is a sequence of lines, a line a sequence of atoms; the
\* placeholder words of the templates are atoms of their own.

\* str::replace, atom by atom: every atom equal to pat becomes rep
ReplaceLine(l, pat, rep) ==
    Flatten([i \in 1..Len(l) |-> IF l[i] = pat THEN rep ELSE <<l[i]>>])

Replace(script, pat, rep) ==
    [i \in 1..Len(script) |-> ReplaceLine(script[i], pat, rep)]

RECURSIVE Join(_, _)
Join(ss, sep) ==
    IF ss = <<>> THEN <<>>
    ELSE IF Len(ss) = 1 THEN Head(ss)
    ELSE Head(ss) \o sep \o Join(Tail(ss), sep)

\* shlex::quote: the empty string and strings holding a shell-special
\* character are wrapped in double quotes, with $ ` " \ backslash-escaped
ShellSpecial == {" ", "$", "|", "&", ";", "*", "\"", "\\", "BACKTICK", "="}
ShellEscaped == {"$", "BACKTICK", "\"", "\\"}

Quote(str) ==
    IF str = <<>> THEN <<"\"", "\"">>
    ELSE IF \E i \in 1..Len(str) : str[i] \in ShellSpecial
    THEN <<"\"">>
         \o Flatten([i \in 1..Len(str) |->
                IF str[i] \in ShellEscaped THEN <<"\\", str[i]>> ELSE <<str[i]>>])
         \o <<"\"">>
    ELSE str

QuoteAll(executables) == [i \in 1..Len(executables) |-> Quote(executables[i])]

\* atoms that are not XID_Continue
NonXid == {"-", ".", " ", "$", "\"", "\\", "-o nospace -o bashdefault",
           "-o nospace -o default -o bashdefault", "-o filenames"}

is_xid_continue(str) == \A i \in 1..Len(str) : str[i] \notin NonXid

make_ascii_uppercase(str) ==
    [i \in 1..Len(str) |->
        CASE str[i] = "tool" -> "TOOL"
          [] str[i] = "my"   -> "MY"
          [] OTHER           -> str[i]]

escaped_name(name) == ReplaceLine(name, "-", <<"_">>)

\* Behavior: <<"Minimal">>, <<"Readline">>, <<"Custom", c>>
Behavior_default == <<"Readline">>

options(behavior) ==
    CASE behavior[1] = "Minimal"  -> <<"-o nospace -o bashdefault">>
      [] behavior[1] = "Readline" -> <<"-o nospace -o default -o bashdefault">>
      [] behavior[1] = "Custom"   -> behavior[2]

bash_script == <<
    <<>>,
    <<"__clap_complete_", "NAME", "_debug() {">>,
    <<"    local file=\"$BASH_COMP_DEBUG_FILE\"">>,
    <<"    if [[ -n ${file} ]]; then">>,
    <<"        echo \"$*\" >> \"${file}\"">>,
    <<"    fi">>,
    <<"}">>,
    <<>>,
    <<"_clap_complete_", "NAME", "() {">>,
    <<"    local compCmd">>,
    <<"    local IFS=$'\\013'">>,
    <<"    local SUPPRESS_SPACE=0">>,
    <<"    if compopt +o nospace 2> /dev/null; then">>,
    <<"        SUPPRESS_SPACE=1">>,
    <<"    fi">>,
    <<"    if [[ ${SUPPRESS_SPACE} == 1 ]]; then">>,
    <<"        SPACE_ARG=\"--no-space\"">>,
    <<"    else">>,
    <<"        SPACE_ARG=\"--space\"">>,
    <<"    fi">>,
    <<>>,
    <<"    compCmd=\"", "COMPLETER", " complete --index ${COMP_CWORD} --type ${COMP_TYPE} ${SPACE_ARG} --ifs=$IFS -- ${COMP_WORDS[@]}\"">>,
    <<>>,
    <<"    __clap_complete_", "NAME", "_debug \"Calling completion command: eval ${compCmd}\"">>,
    <<>>,
    <<"    COMPREPLY=( $(\"", "COMPLETER", "\" complete --index ${COMP_CWORD} --type ${COMP_TYPE} ${SPACE_ARG} --ifs=\"$IFS\" -- \"${COMP_WORDS[@]}\") )">>,
    <<"    __clap_complete_", "NAME", "_debug \"Completion command output: ${COMPREPLY}\"">>,
    <<>>,
    <<"    if [[ $? != 0 ]]; then">>,
    <<"        unset COMPREPLY">>,
    <<"    elif [[ $SUPPRESS_SPACE == 1 ]] && [[ \"${COMPREPLY-}\" =~ [=/:]$ ]]; then">>,
    <<"        compopt -o nospace">>,
    <<"    fi">>,
    <<"}">>,
    <<>>,
    <<"complete ", "OPTIONS", " -F _clap_complete_", "NAME", " ", "EXECUTABLES">>
>>
\* writeln!(buf, "{}", script): the script, then a line end
writeln(script) == Append(script, <<>>)

\* bash::register; debug_assertions is the build profile
bash_register(name, executables, completer, behavior, debug_assertions) ==
    LET escaped == escaped_name(name)
        upper_name == make_ascii_uppercase(escaped)
        execs == Join(QuoteAll(executables), <<" ">>)
        script == Replace(Replace(Replace(Replace(Replace(bash_script,
                      "NAME", escaped),
                      "EXECUTABLES", execs),
                      "OPTIONS", options(behavior)),
                      "COMPLETER", Quote(completer)),
                      "UPPER", upper_name)
    IN  IF debug_assertions /\ ~is_xid_continue(escaped)
        THEN [result |-> "Panic", buf |-> <<>>]
        ELSE [result |-> "Ok", buf |-> writeln(script)]

\* a variant naming the file after the escaped identifier
bash_file_name_escaped(name) == escaped_name(name) \o <<".bash">>

bash_file_name(name) == name \o <<".bash">>

zsh_script == <<
    <<>>,
    <<"#compdef _clap_complete_", "NAME", " ", "NAME">>,
    <<"# zsh completion for ", "NAME">>,
    <<"__clap_complete_", "NAME", "_debug() {">>,
    <<"    local file=\"$BASH_COMP_DEBUG_FILE\"">>,
    <<"    if [[ -n ${file} ]]; then">>,
    <<"        echo \"$*\" >> \"${file}\"">>,
    <<"    fi">>,
    <<"}">>,
    <<>>,
    <<"_clap_complete_", "NAME", "() {">>,
    <<"    local lastParam lastChar flagPrefix compCmd compResult compLine lastComp">>,
    <<"    local -a completions">>,
    <<>>,
    <<"    __clap_complete_", "NAME", "_debug \"\\n========= starting completion logic ==========\"">>,
    <<"    __clap_complete_", "NAME", "_debug \"CURRENT: ${CURRENT}, words[*]: ${words[*]}\"">>,
    <<>>,
    <<"    # The user could have moved the cursor backwards on the command-line.">>,
    <<"    # We need to trigger completion from the $CURRENT location, so we need">>,
    <<"    # to truncate the command-line ($words) up to the $CURRENT location.">>,
    <<"    # (We cannot use $CURSOR as its value does not work when a command is an alias.)">>,
    <<"    words=(\"${=words[1,CURRENT]}\")">>,
    <<"    __clap_complete_", "NAME", "_debug \"Truncated words[*]: ${words[*]},\"">>,
    <<"    lastParam=${words[-1]}">>,
    <<"    lastChar=${lastParam[-1]}">>,
    <<"    __clap_complete_", "NAME", "_debug \"lastParam: ${lastParam}, lastChar: ${lastChar}\"">>,
    <<>>,
    <<"    # For zsh, when completing a flag with an = (e.g., ", "NAME", " -n=<TAB>)">>,
    <<"    # completions must be prefixed with the flag">>,
    <<"    setopt local_options BASH_REMATCH">>,
    <<"    if [[ \"${lastParam}\" =~ '-.+=' ]]; then">>,
    <<"        # We are dealing with a flag with an =">>,
    <<"        flagPrefix=\"-P ${BASH_REMATCH}\"">>,
    <<"    fi">>,
    <<>>,
    <<"    # Prepare the command to obtain completions">>,
    <<"    compCmd=\"", "COMPLETER", " complete --type 63 --index 1 --no-space -- ${words[1,-1]}\"">>,
    <<>>,
    <<"    __clap_complete_", "NAME", "_debug \"Calling completion command: eval ${compCmd}\"">>,
    <<>>,
    <<"    # Use eval to handle any environment variables and such">>,
    <<"    compResult=$(eval ${compCmd} 2>/dev/null)">>,
    <<"    __clap_complete_", "NAME", "_debug \"Completion command output: ${compResult}\"">>,
    <<>>,
    <<"    __clap_complete_", "NAME", "_debug \"completions: ${compResult}\"">>,
    <<"    __clap_complete_", "NAME", "_debug \"flagPrefix: ${flagPrefix}\"">>,
    <<>>,
    <<"    while IFS='\\n' read -r compLine; do">>,
    <<"        if [ -n \"$compLine\" ]; then">>,
    <<"            # If requested, completions are returned with a description.">>,
    <<"            # The description is preceded by a TAB character.">>,
    <<"            # For zsh's _describe, we need to use a : instead of a TAB.">>,
    <<"            # We first need to escape any : as part of the completion itself.">>,
    <<"            compLine=${compLine//:/\\\\:}">>,
    <<"            local tab=\"$(printf '\\t')\"">>,
    <<"            compLine=${compLine//$tab/:}">>,
    <<"            __clap_complete_", "NAME", "_debug \"Adding completion: ${compLine}\"">>,
    <<"            completions+=${compLine}">>,
    <<"            lastComp=$compLine">>,
    <<"        fi">>,
    <<"    done < <(printf \"%%s\\n\" \"${compResult[@]}\")">>,
    <<>>,
    <<"    __clap_complete_", "NAME", "_debug \"Calling _describe\"">>,
    <<"    if eval _describe \"completions\" completions; then">>,
    <<"        __clap_complete_", "NAME", "_debug \"_describe found some completions\"">>,
    <<"        # Return the success of having called _describe">>,
    <<"        return 0">>,
    <<"    else">>,
    <<"        __clap_complete_", "NAME", "_debug \"_describe did not find completions.\"">>,
    <<"        __clap_complete_", "NAME", "_debug \"Checking if we should do file completion.\"">>,
    <<"        # TODO: Allow customizing behavior here">>,
    <<>>,
    <<"        # Perform file completion">>,
    <<"        __clap_complete_", "NAME", "_debug \"Activating file completion\"">>,
    <<>>,
    <<"        # We must return the result of this command, so it must be the">>,
    <<"        # last command, or else we must store its result to return it.">>,
    <<"        _arguments '*:filename:_files'\" ${flagPrefix}\"">>,
    <<"    fi">>,
    <<"}">>,
    <<>>,
    <<"# don't run the completion function when being source-ed or eval-ed">>,
    <<"if [ \"$funcstack[1]\" = \"_", "NAME", "\" ]; then">>,
    <<"    _", "NAME">>,
    <<"fi">>
>>


\* zsh::register
zsh_register(name, executables, completer, debug_assertions) ==
    LET escaped == escaped_name(name)
        upper_name == make_ascii_uppercase(escaped)
        execs == Join(QuoteAll(executables), <<" ">>)
        script == Replace(Replace(Replace(Replace(zsh_script,
                      "NAME", escaped),
                      "EXECUTABLES", execs),
                      "COMPLETER", Quote(completer)),
                      "UPPER", upper_name)
    IN  IF debug_assertions /\ ~is_xid_continue(escaped)
        THEN [result |-> "Panic", buf |-> <<>>]
        ELSE [result |-> "Ok", buf |-> writeln(script)]

zsh_file_name(name) == name \o <<".zsh">>

\* program names, executable names and behaviours the model draws from
Names == {<<"tool">>, <<"my", "-", "tool">>, <<"my", ".", "tool">>}
ExecNames == {<<"tool">>, <<"my", " ", "tool">>, <<"OPTIONS">>}
Behaviors == {<<"Minimal">>, <<"Readline">>, <<"Custom", <<"-o filenames">>>>}
Executables == SeqsUpTo(ExecNames, MaxExecs)

\* --------------------------------------------------- the bridge's parser
\* a variant without the conflict between the two flags
conflicts_with_nothing(a) == FALSE

\* #[clap(long, conflicts_with = "space")] no_space
conflicts_with(a) == a.no_space /\ a.space

\* bash::CompleteArgs: --index and --type are required, --type takes one of
\* the possible values, --no-space conflicts with --space
bash_CompleteArgs(a) ==
    /\ a.index >= 0
    /\ a.type # ""
    /\ TypeMatches(a.type) # {}
    /\ ~conflicts_with(a)

\* zsh::CompleteArgs is an empty struct: any argument is unexpected
zsh_CompleteArgs(a) ==
    /\ a.index = -1
    /\ a.type = ""
    /\ ~a.space /\ ~a.no_space /\ ~a.has_ifs
    /\ a.comp_words = <<>>

\* CompletionsArgs: shell is a value_enum, out_path is optional
CompletionsShell == {"bash", "zsh"}
CompletionsArgs(a) == a.shell \in CompletionsShell

\* CompleteCommand: the subcommands `completions` and `__complete`, the
\* latter with the subcommands `bash` and `zsh` (CompleteShell)
CompleteCommand(a) ==
    CASE a.subs = <<"completions">> ->
            IF CompletionsArgs(a) THEN "Completions" ELSE "UsageError"
      [] a.subs = <<"__complete", "bash">> ->
            IF bash_CompleteArgs(a) THEN "CompleteBash" ELSE "UsageError"
      [] a.subs = <<"__complete", "zsh">> ->
            IF zsh_CompleteArgs(a) THEN "CompleteZsh" ELSE "UsageError"
      [] OTHER -> "UsageError"

\* ------------------------------------------------------- bash::complete
\* match (args.space, args.no_space)
space_match(sp, ns) ==
    CASE sp /\ ~ns  -> "Some(true)"
      [] ~sp /\ ns  -> "Some(false)"
      [] sp /\ ns   -> "unreachable"
      [] OTHER      -> "None"

\* Option::unwrap on the match's value
unwrap(opt) == IF opt \in {"None", "unreachable"} THEN "panic" ELSE opt

\* OsStr::to_string_lossy: an invalid byte becomes U+FFFD
to_string_lossy(c) ==
    [i \in 1..Len(c) |-> IF c[i] = "\\xFF" THEN "\\uFFFD" ELSE c[i]]

\* args.ifs.as_deref().unwrap_or("\n")
separator(a) == IF a.has_ifs THEN a.ifs ELSE <<LF>>

\* a variant of the loop body that ends every entry with the separator
write_entry_sep_after(buf, i, sep, completion) ==
    buf \o to_string_lossy(completion) \o sep

\* the body of the loop, for the entry at (0-based) position i
write_entry(buf, i, sep, completion) ==
    (IF i # 0 THEN buf \o sep ELSE buf) \o to_string_lossy(completion)

\* for (i, completion) in completions.iter().enumerate()
RECURSIVE serialize(_, _, _, _)
serialize(completions, sep, i, buf) ==
    IF i = Len(completions) THEN buf
    ELSE serialize(completions, sep, i + 1,
                   write_entry(buf, i, sep, completions[i + 1]))

\* Write::write accepts a prefix of the buffer: of a non-empty buffer at
\* least one byte, and no more than all of it
write_counts(buf) == IF buf = <<>> THEN {0} ELSE 1..Len(buf)

\* Write::write_all writes everything or fails after a prefix
write_all_counts(buf) == 0..Len(buf)

\* what the completer (super::complete::get) may return
CandTexts == {<<"a">>, <<"b", "=">>, <<"\\xFF">>}
Candidates == SeqsUpTo(CandTexts, MaxCands)

\* exit codes: clap's Error::exit, a panic, std::process::exit(0)
exit_usage == 2
exit_panic == 101
exit_success == 0

\* ------------------------------------------------------------ file system
Dirs == {<<"d">>, <<"-">>}
OutPaths == {NoPath, <<"-">>, <<"d">>, <<"f">>, <<"n">>}
is_dir(path) == path \in Dirs
PathJoin(path, filename) == path \o <<"/">> \o filename

\* the files there are before the program runs
InitialFiles == [p \in {<<"f">>} |-> <<"old">>]

\* std::fs::write: the file at path now holds buf
fs_write(fs, path, buf) ==
    [p \in DOMAIN fs \cup {path} |-> IF p = path THEN buf ELSE fs[p]]

\* the host program's clap::Command and build profile
NoBin == <<"<none>">>
get_name(c) == c.name
get_bin_name(c) == c.bin_name
Cmds == [name : Names, bin_name : {NoBin, <<"my", " ", "tool">>},
         debug_assertions : BOOLEAN]

\* ------------------------------------------------------------------ state
VARIABLES
    mode,        \* "idle", "answer", "install", "render", "keystroke"
    pc,          \* where the bridge process is
    argv,        \* the command line the process was started with
    origin,      \* who started it: "direct", "bash", "zsh"
    cmd,         \* the host program's command
    command,     \* the parsed CompleteCommand variant
    space,       \* _space of bash::complete
    completions, \* what the completer returned
    calls,       \* how often the completer was invoked
    buf,         \* the buffer built for writing
    stdout,      \* what reached standard output
    files,       \* the files of the file system
    result,      \* what try_run returned
    exitCode,    \* the exit code, -1 while running
    rendered,    \* the last script rendered by a register function
    sh           \* the shell running a generated completion function

procVars == <<pc, argv, origin, cmd, command, space, completions, calls, buf,
              stdout, files, result, exitCode>>
vars == <<mode, pc, argv, origin, cmd, command, space, completions, calls, buf,
          stdout, files, result, exitCode, rendered, sh>>

NoArgv == ArgvOf(<<>>, -1, "", FALSE, FALSE, FALSE, <<>>, <<>>, "", NoPath)
NoCmd == [name |-> <<"tool">>, bin_name |-> NoBin, debug_assertions |-> FALSE]
NoRender == [dialect |-> "", name |-> <<>>, executables |-> <<>>,
             completer |-> <<>>, behavior |-> <<>>, result |-> "", buf |-> <<>>]
NoShell == [pc |-> "idle", dialect |-> "", words |-> <<>>, cword |-> 0,
            comp_type |-> "", debug_file |-> "unset", nospace |-> FALSE,
            compopt_ok |-> FALSE, SUPPRESS_SPACE |-> 0, SPACE_ARG |-> "",
            compCmd |-> NoArgv, completer |-> "", completer_status |-> 0,
            completer_out |-> <<>>, status |-> 0, COMPREPLY |-> <<>>,
            reply_set |-> FALSE, flagPrefix |-> "", completions |-> <<>>,
            ret |-> -1]

Init ==
    /\ mode = "idle"
    /\ pc = "idle"
    /\ argv = NoArgv
    /\ origin = ""
    /\ cmd = NoCmd
    /\ command = ""
    /\ space = ""
    /\ completions = <<>>
    /\ calls = 0
    /\ buf = <<>>
    /\ stdout = <<>>
    /\ files = InitialFiles
    /\ result = ""
    /\ exitCode = -1
    /\ rendered = NoRender
    /\ sh = NoShell

\* ------------------------------------------------------ the bridge process
\* the host program is started with a __complete (or other) command line
InvokeComplete ==
    /\ mode = "idle"
    /\ \E a \in DirectCompleteArgvs :
          argv' = a
    /\ mode' = "answer"
    /\ origin' = "direct"
    /\ pc' = "parse"
    /\ UNCHANGED <<cmd, command, space, completions, calls, buf, stdout, files,
                   result, exitCode, rendered, sh>>

\* the host program is started with a completions command line
InvokeCompletions ==
    /\ mode = "idle"
    /\ \E shell \in CompletionsShell \cup {"fish"}, out_path \in OutPaths, c \in Cmds :
          /\ argv' = ArgvOf(<<"completions">>, -1, "", FALSE, FALSE, FALSE, <<>>,
                            <<>>, shell, out_path)
          /\ cmd' = c
    /\ mode' = "install"
    /\ origin' = "direct"
    /\ pc' = "parse"
    /\ UNCHANGED <<command, space, completions, calls, buf, stdout, files,
                   result, exitCode, rendered, sh>>

\* clap parses the command line into a CompleteCommand or exits with a
\* usage error
Parse ==
    /\ pc = "parse"
    /\ command' = CompleteCommand(argv)
    /\ IF command' = "UsageError"
       THEN /\ exitCode' = exit_usage
            /\ pc' = "exited"
       ELSE /\ pc' = "try_run"
            /\ UNCHANGED exitCode
    /\ UNCHANGED <<mode, argv, origin, cmd, space, completions, calls, buf,
                   stdout, files, result, rendered, sh>>

\* CompleteCommand::try_run: the match on self; the zsh arm is todo!()
try_run ==
    /\ pc = "try_run"
    /\ CASE command = "Completions"  -> pc' = "register" /\ UNCHANGED exitCode
         [] command = "CompleteBash" -> pc' = "complete" /\ UNCHANGED exitCode
         [] command = "CompleteZsh"  -> pc' = "exited" /\ exitCode' = exit_panic
    /\ UNCHANGED <<mode, argv, origin, cmd, command, space, completions, calls,
                   buf, stdout, files, result, rendered, sh>>

\* bash::complete, up to the completer: index, _comp_type and _space
complete_args ==
    /\ pc = "complete"
    /\ LET v == unwrap(space_match(argv.space, argv.no_space))
       IN  IF v = "panic"
           THEN /\ pc' = "exited"
                /\ exitCode' = exit_panic
                /\ UNCHANGED space
           ELSE /\ pc' = "get"
                /\ space' = v
                /\ UNCHANGED exitCode
    /\ UNCHANGED <<mode, argv, origin, cmd, command, completions, calls, buf,
                   stdout, files, result, rendered, sh>>

\* bash::complete: super::complete::get(...)?
complete_get ==
    /\ pc = "get"
    /\ calls' = calls + 1
    /\ \/ /\ result' = "ErrGet"
          /\ pc' = "returned"
          /\ UNCHANGED completions
       \/ /\ \E cs \in Candidates : completions' = cs
          /\ pc' = "emit"
          /\ UNCHANGED result
    /\ UNCHANGED <<mode, argv, origin, cmd, command, space, buf, stdout, files,
                   exitCode, rendered, sh>>

\* bash::complete: build buf, then std::io::stdout().write(&buf)?
complete_emit ==
    /\ pc = "emit"
    /\ buf' = serialize(completions, separator(argv), 0, <<>>)
    /\ \/ /\ result' = "ErrWrite"
          /\ UNCHANGED stdout
       \/ /\ \E n \in write_counts(buf') : stdout' = SubSeq(buf', 1, n)
          /\ result' = "Ok"
    /\ pc' = "returned"
    /\ UNCHANGED <<mode, argv, origin, cmd, command, space, completions, calls,
                   files, exitCode, rendered, sh>>

\* CompleteCommand::run: exit with the error's code, or with 0
run ==
    /\ pc = "returned"
    /\ exitCode' = IF result = "Ok" THEN exit_success ELSE exit_usage
    /\ pc' = "exited"
    /\ UNCHANGED <<mode, argv, origin, cmd, command, space, completions, calls,
                   buf, stdout, files, result, rendered, sh>>

\* register of dynamic/mod.rs: render the script, then write it to standard
\* output, into the directory, or to the path
register ==
    /\ pc = "register"
    /\ LET name == get_name(cmd)
           bin == IF get_bin_name(cmd) = NoBin THEN get_name(cmd) ELSE get_bin_name(cmd)
           r == IF argv.shell = "bash"
                THEN bash_register(name, <<bin>>, bin, Behavior_default,
                                   cmd.debug_assertions)
                ELSE zsh_register(name, <<bin>>, bin, cmd.debug_assertions)
           write_stdout == argv.out_path = <<"-">> \/ argv.out_path = NoPath
           filename == IF argv.shell = "bash" THEN bash_file_name(name)
                       ELSE zsh_file_name(name)
           target == IF is_dir(argv.out_path)
                     THEN PathJoin(argv.out_path, filename)
                     ELSE argv.out_path
       IN  IF r.result = "Panic"
           THEN /\ pc' = "exited"
                /\ exitCode' = exit_panic
                /\ UNCHANGED <<buf, stdout, files, result>>
           ELSE /\ buf' = r.buf
                /\ pc' = "returned"
                /\ UNCHANGED exitCode
                /\ IF write_stdout
                   THEN /\ \E n \in write_all_counts(r.buf) :
                              /\ stdout' = SubSeq(r.buf, 1, n)
                              /\ result' = IF n = Len(r.buf) THEN "Ok" ELSE "ErrWrite"
                        /\ UNCHANGED files
                   ELSE /\ \/ /\ files' = fs_write(files, target, r.buf)
                              /\ result' = "Ok"
                           \/ /\ result' = "ErrFs"
                              /\ UNCHANGED files
                        /\ UNCHANGED stdout
    /\ UNCHANGED <<mode, argv, origin, cmd, command, space, completions, calls,
                   rendered, sh>>

\* a caller renders a registration script with a register function
RenderScript ==
    /\ mode = "idle"
    /\ mode' = "render"
    /\ \E d \in CompletionsShell, name \in Names, execs \in Executables \ {<<>>},
          completer \in ExecNames, behavior \in Behaviors, dbg \in BOOLEAN :
          LET r == IF d = "bash"
                   THEN bash_register(name, execs, completer, behavior, dbg)
                   ELSE zsh_register(name, execs, completer, dbg)
          IN  rendered' = [dialect |-> d, name |-> name, executables |-> execs,
                           completer |-> completer,
                           behavior |-> IF d = "bash" THEN behavior ELSE <<>>,
                           result |-> r.result, buf |-> r.buf]
    /\ UNCHANGED <<procVars, sh>>

\* ------------------------------------------- the generated shell functions
\* word splitting of a command substitution on the delimiter d: every d
\* ends a field, and what follows the last d is a field unless it is empty
RECURSIVE SplitAcc(_, _, _, _)
SplitAcc(rest, d, cur, acc) ==
    IF rest = <<>> THEN (IF cur = <<>> THEN acc ELSE Append(acc, cur))
    ELSE IF Head(rest) = d THEN SplitAcc(Tail(rest), d, <<>>, Append(acc, cur))
    ELSE SplitAcc(Tail(rest), d, Append(cur, Head(rest)), acc)

Split(out, d) == SplitAcc(out, d, <<>>, <<>>)

\* __clap_complete_NAME_debug: the status of the if, which is that of the
\* echo when BASH_COMP_DEBUG_FILE is set and 0 when it is not
debug_status(debug_file) == IF debug_file = "unwritable" THEN 1 ELSE 0

\* the status `[[ $? != 0 ]]` reads: that of the command run last before
\* it, the call of __clap_complete_NAME_debug
tested_status(s) == debug_status(s.debug_file)

\* a variant reading the last element of the array
COMPREPLY_last(s) ==
    IF s.reply_set /\ s.COMPREPLY # <<>> THEN Last(s.COMPREPLY) ELSE <<>>

\* "${COMPREPLY-}": element 0 of the array, or empty
COMPREPLY_value(s) ==
    IF s.reply_set /\ s.COMPREPLY # <<>> THEN s.COMPREPLY[1] ELSE <<>>

\* =~ [=/:]$
ends_in_special(text) == text # <<>> /\ Last(text) \in {"=", "/", ":"}

\* the command line of bash's COMPREPLY=( $("COMPLETER" complete ...) )
bash_compCmd(s) ==
    ArgvOf(<<"complete">>, s.cword, s.comp_type, s.SPACE_ARG = "--space",
           s.SPACE_ARG = "--no-space", TRUE, <<VT>>, s.words, "", NoPath)

\* the command line of zsh's compCmd
zsh_compCmd(s) ==
    ArgvOf(<<"complete">>, 1, "63", FALSE, TRUE, FALSE, <<>>, s.words, "", NoPath)

\* [[ "${lastParam}" =~ '-.+=' ]]
flag_with_eq(word) == word \in {"-f=x"}

ShellWords == Words \ {<<>>}
CompTypeCodes == {"9", "63"}
DebugFiles == {"unset", "writable", "unwritable"}

\* the user presses the completion key; the shell calls the function
Keystroke ==
    /\ mode = "idle"
    /\ mode' = "keystroke"
    /\ \E d \in CompletionsShell, w \in ShellWords, t \in CompTypeCodes,
          f \in DebugFiles, ns \in BOOLEAN, c \in {"bridge", "external"} :
          \E cw \in (IF d = "bash" THEN 0..(Len(w) - 1) ELSE 1..Len(w)) :
             sh' = [NoShell EXCEPT !.pc = "start", !.dialect = d, !.words = w,
                                   !.cword = cw,
                                   !.comp_type = IF d = "bash" THEN t ELSE "",
                                   !.debug_file = f, !.nospace = ns,
                                   !.completer = c]
    /\ UNCHANGED <<procVars, rendered>>

\* _clap_complete_NAME of bash, up to the command substitution
bash_prepare ==
    /\ sh.pc = "start" /\ sh.dialect = "bash"
    /\ \E ok \in BOOLEAN :
          LET suppress == IF ok THEN 1 ELSE 0
              s1 == [sh EXCEPT !.compopt_ok = ok,
                               !.nospace = IF ok THEN FALSE ELSE sh.nospace,
                               !.SUPPRESS_SPACE = suppress,
                               !.SPACE_ARG = IF suppress = 1 THEN "--no-space"
                                             ELSE "--space"]
          IN  sh' = [s1 EXCEPT !.compCmd = bash_compCmd(s1), !.pc = "call"]
    /\ UNCHANGED <<mode, procVars, rendered>>

\* _clap_complete_NAME of zsh, up to the command substitution
zsh_prepare ==
    /\ sh.pc = "start" /\ sh.dialect = "zsh"
    /\ LET truncated == SubSeq(sh.words, 1, sh.cword)
           lastParam == Last(truncated)
           s1 == [sh EXCEPT !.words = truncated,
                            !.flagPrefix = IF flag_with_eq(lastParam)
                                           THEN "-P " ELSE ""]
       IN  sh' = [s1 EXCEPT !.compCmd = zsh_compCmd(s1), !.pc = "call"]
    /\ UNCHANGED <<mode, procVars, rendered>>

\* the completer is the bridge: the shell starts the host program
BridgeInvoke ==
    /\ sh.pc = "call" /\ sh.completer = "bridge"
    /\ pc = "idle"
    /\ argv' = sh.compCmd
    /\ origin' = sh.dialect
    /\ pc' = "parse"
    /\ sh' = [sh EXCEPT !.pc = "wait"]
    /\ UNCHANGED <<mode, cmd, command, space, completions, calls, buf, stdout,
                   files, result, exitCode, rendered>>

\* the host program has exited: its output and status go to the shell
BridgeReturn ==
    /\ sh.pc = "wait"
    /\ pc = "exited"
    /\ sh' = [sh EXCEPT !.pc = "reply", !.completer_status = exitCode,
                        !.completer_out = stdout]
    /\ UNCHANGED <<mode, procVars, rendered>>

\* the completer is some other program: any status, any candidates
ExternalCompleter ==
    /\ sh.pc = "call" /\ sh.completer = "external"
    /\ \E st \in {0, 1}, cs \in Candidates :
          sh' = [sh EXCEPT !.pc = "reply", !.completer_status = st,
                           !.completer_out =
                               Join(cs, IF sh.dialect = "bash" THEN <<VT>>
                                        ELSE <<LF>>)]
    /\ UNCHANGED <<mode, procVars, rendered>>

\* bash: COMPREPLY=( $(...) ), then the debug call
bash_reply ==
    /\ sh.pc = "reply" /\ sh.dialect = "bash"
    /\ sh' = [sh EXCEPT !.pc = "test", !.reply_set = TRUE,
                        !.COMPREPLY = Split(sh.completer_out, VT),
                        !.status = tested_status(sh)]
    /\ UNCHANGED <<mode, procVars, rendered>>

\* bash: if [[ $? != 0 ]] ... elif ... fi
bash_finish ==
    /\ sh.pc = "test" /\ sh.dialect = "bash"
    /\ sh' = IF sh.status # 0
             THEN [sh EXCEPT !.pc = "done", !.reply_set = FALSE, !.COMPREPLY = <<>>]
             ELSE IF sh.SUPPRESS_SPACE = 1 /\ ends_in_special(COMPREPLY_value(sh))
             THEN [sh EXCEPT !.pc = "done", !.nospace = TRUE]
             ELSE [sh EXCEPT !.pc = "done"]
    /\ UNCHANGED <<mode, procVars, rendered>>

\* zsh: compResult=$(eval ${compCmd}), then the read loop over the output of
\* printf "%%s\n", which is the one line %s
zsh_collect ==
    /\ sh.pc = "reply" /\ sh.dialect = "zsh"
    /\ sh' = [sh EXCEPT !.pc = "describe", !.completions = << <<"%s">> >>]
    /\ UNCHANGED <<mode, procVars, rendered>>

\* zsh: _describe, or file completion with _arguments
zsh_describe ==
    /\ sh.pc = "describe" /\ sh.dialect = "zsh"
    /\ \E found \in BOOLEAN, files_status \in {0, 1} :
          sh' = [sh EXCEPT !.pc = "done",
                           !.ret = IF found THEN 0 ELSE files_status]
    /\ UNCHANGED <<mode, procVars, rendered>>

Next ==
    \/ InvokeComplete
    \/ InvokeCompletions
    \/ Parse
    \/ try_run
    \/ complete_args
    \/ complete_get
    \/ complete_emit
    \/ run
    \/ register
    \/ RenderScript
    \/ Keystroke
    \/ bash_prepare
    \/ zsh_prepare
    \/ BridgeInvoke
    \/ BridgeReturn
    \/ ExternalCompleter
    \/ bash_reply
    \/ bash_finish
    \/ zsh_collect
    \/ zsh_describe

Spec == Init /\ [][Next]_vars

\* ================================================================ claims
BashAnswer == argv.subs = <<"__complete", "bash">>
Emitted == pc \in {"returned", "exited"} /\ result \in {"Ok", "ErrWrite"}
       /\ command = "CompleteBash"

\* where entry k starts in the response, counted from 0
RECURSIVE EntryStart(_, _, _)
EntryStart(texts, sep, k) ==
    IF k = 1 THEN 0
    ELSE EntryStart(texts, sep, k - 1) + Len(texts[k - 1]) + Len(sep)

\* C1: the response bash::complete serializes is the candidates' texts in
\* order with the separator (--ifs, or newline when absent) between
\* consecutive entries only: each text sits at its place, the separator
\* sits between two neighbours, nothing follows the last text, and the
\* response is empty when there is no candidate.
C1_ResponseIsJoined ==
    Emitted =>
        LET n == Len(completions)
            texts == [k \in 1..n |-> to_string_lossy(completions[k])]
            sep == IF argv.has_ifs THEN argv.ifs ELSE <<"\\n">>
            start(k) == EntryStart(texts, sep, k)
        IN  /\ n = 0 => buf = <<>>
            /\ n > 0 => Len(buf) = start(n) + Len(texts[n])
            /\ \A k \in 1..n :
                  SubSeq(buf, start(k) + 1, start(k) + Len(texts[k])) = texts[k]
            /\ \A k \in 1..(n - 1) :
                  SubSeq(buf, start(k) + Len(texts[k]) + 1, start(k + 1)) = sep

C1_Witness ==
    /\ Emitted /\ pc = "exited"
    /\ Len(completions) >= 2
    /\ argv.has_ifs /\ Len(argv.ifs) = 2

\* C2: an Answer invocation of bash exits with 0 exactly when the request
\* decoded and candidate generation did not fail, and every invocation
\* ends by exiting.
C2_ExitZeroIffDecodedAndGenerated ==
    (mode = "answer" /\ BashAnswer /\ pc = "exited") =>
        /\ exitCode # -1
        /\ exitCode = 0 <=> (command = "CompleteBash" /\ result # "ErrGet")

\* C3: with --space and --no-space both present the decoder fails: the
\* process ends in clap's usage error, no _space value is chosen, the
\* completer is never invoked and nothing is written.
C3_BothFlagsRejected ==
    (argv.space /\ argv.no_space) =>
        /\ pc \in {"parse", "exited"}
        /\ space = ""
        /\ calls = 0
        /\ stdout = <<>>
        /\ pc = "exited" => (command = "UsageError" /\ exitCode = exit_usage)

C3_Witness ==
    /\ BashAnswer /\ pc = "exited"
    /\ argv.space /\ argv.no_space
    /\ argv.index >= 0 /\ argv.type = "9"

\* C4: a request with neither --space nor --no-space (and the required
\* flags) is valid: bash::complete invokes the completer for it and, when
\* the completer and the write succeed, exits with 0.
C4_UnsetSpaceIsServed ==
    (BashAnswer /\ pc = "exited" /\ ~argv.space /\ ~argv.no_space
        /\ argv.index >= 0 /\ TypeMatches(argv.type) # {}) =>
        /\ calls = 1
        /\ result = "Ok" <=> exitCode = 0

\* C5: Install writes the rendered script to exactly one destination: to
\* standard output and to no file when the path is omitted or `-`; to
\* <program name>.bash or <program name>.zsh inside the path when it is a
\* directory; to the path itself otherwise.
C5_InstallDestination ==
    mode = "install" =>
        LET p == argv.out_path
            ext == IF argv.shell = "bash" THEN ".bash" ELSE ".zsh"
            inside == p \o <<"/">> \o cmd.name \o <<ext>>
            dest == IF p \in Dirs THEN inside ELSE p
            done == pc \in {"returned", "exited"} /\ result = "Ok"
        IN  IF p = NoPath \/ p = <<"-">>
            THEN /\ files = InitialFiles
                 /\ done => (buf # <<>> /\ stdout = buf)
            ELSE /\ stdout = <<>>
                 /\ \A q \in DOMAIN files \ {dest} :
                       q \in DOMAIN InitialFiles /\ files[q] = InitialFiles[q]
                 /\ done => /\ buf # <<>>
                            /\ DOMAIN files = DOMAIN InitialFiles \cup {dest}
                            /\ files[dest] = buf

C5_Witness ==
    /\ mode = "install" /\ pc = "exited" /\ exitCode = 0
    /\ argv.out_path = <<"d">>
    /\ argv.shell = "bash"
    /\ cmd.name = <<"my", "-", "tool">>
    /\ <<"d", "/", "my", "-", "tool", ".bash">> \in DOMAIN files

\* C6: whenever an Answer invocation exits with 0, every byte of the
\* serialized response has been written to standard output.
C6_ExitZeroMeansWrittenInFull ==
    (BashAnswer /\ pc = "exited" /\ exitCode = 0) => stdout = buf

\* C7: in the generated bash function, when the completer invocation exits
\* with a non-zero code the function finishes with COMPREPLY unset.
C7_FailureUnsetsReply ==
    (sh.dialect = "bash" /\ sh.pc = "done" /\ sh.completer_status # 0) =>
        ~sh.reply_set

\* the reply of the completer as the shell splits it
Reply == Split(sh.completer_out, VT)

\* C8 (as claimed): space suppression is on again at the end only when the
\* last candidate of the reply ends in one of = / :
C8_ReenabledOnlyForLastCandidate ==
    (sh.dialect = "bash" /\ sh.pc = "done" /\ sh.compopt_ok /\ sh.nospace) =>
        (Reply # <<>> /\ Last(Last(Reply)) \in {"=", "/", ":"})

\* C8 (amended): the function passes exactly one of --space / --no-space,
\* --no-space exactly when `compopt +o nospace` succeeded, which turned
\* suppression off; suppression is on again at the end exactly when that
\* compopt succeeded, the status tested is 0 and the FIRST candidate of the
\* reply ends in one of = / :
C8_ReenabledForFirstCandidate ==
    (sh.dialect = "bash" /\ sh.pc \in {"call", "wait", "reply", "test", "done"}) =>
        /\ sh.compCmd.space # sh.compCmd.no_space
        /\ sh.compCmd.no_space <=> sh.compopt_ok
        /\ (sh.compopt_ok /\ sh.pc # "done") => ~sh.nospace
        /\ (sh.compopt_ok /\ sh.pc = "done") =>
              (sh.nospace <=>
                  /\ sh.status = 0
                  /\ Reply # <<>>
                  /\ Reply[1] # <<>>
                  /\ Last(Reply[1]) \in {"=", "/", ":"})

C8_Witness ==
    /\ sh.dialect = "bash" /\ sh.pc = "done" /\ sh.compopt_ok
    /\ Len(Reply) >= 2
    /\ Reply[1] = <<"b", "=">>
    /\ Last(Reply) = <<"a">>
    /\ sh.nospace

\* C9: the command line a generated script issues is accepted by the
\* dispatcher, routed to the Answer action of the script's dialect, and
\* decodes to the shell's word index and words.
C9_ScriptCommandLineIsRouted ==
    (origin \in {"bash", "zsh"} /\ pc \notin {"idle", "parse"}) =>
        /\ command = (IF origin = "bash" THEN "CompleteBash" ELSE "CompleteZsh")
        /\ argv.index = (IF origin = "bash" THEN sh.cword ELSE sh.cword - 1)
        /\ argv.comp_words = sh.words

\* C10: the rendered script registers the function it defines,
\* _clap_complete_<escaped name>, against exactly the requested executable
\* names, each shell-quoted (for a name that is an identifier once escaped).
C10_RegistersRequestedExecutables ==
    (rendered.result = "Ok" /\ is_xid_continue(escaped_name(rendered.name))) =>
        LET esc == escaped_name(rendered.name)
            execs == Join(QuoteAll(rendered.executables), <<" ">>)
            lines == rendered.buf
            registration ==
                IF rendered.dialect = "bash"
                THEN <<"complete ">> \o options(rendered.behavior)
                     \o <<" -F _clap_complete_">> \o esc \o <<" ">> \o execs
                ELSE <<"#compdef _clap_complete_">> \o esc \o <<" ">> \o execs
        IN  /\ \E i \in 1..Len(lines) :
                  lines[i] = <<"_clap_complete_">> \o esc \o <<"() {">>
            /\ \E i \in 1..Len(lines) : lines[i] = registration

====
